---- MODULE Spec2Model ----
(***************************************************************************)
(* A model of cbot.py, a Telegram bot that relays each text message to the *)
(* Cohere generate endpoint and sends the generated text back.             *)
(*                                                                         *)
(* Two parts:                                                              *)
(*   - get_cohere_response (cbot.py 38-91), a function of the prompt and   *)
(*     of what requests.post does, exercised by GenSpec;                   *)
(*   - handle_message / error_handler / main (cbot.py 115-162), one        *)
(*     handler per conversation, exercised by Spec.                        *)
(*                                                                         *)
(* A Python str is a sequence of atoms.  An atom is one character of Chars *)
(* or a literal fragment of the source (a fixed message, a key name).  The *)
(* emoji that starts each fixed message in the source is left out of the   *)
(* literal; nothing in the program reads it.                               *)
(***************************************************************************)
EXTENDS Integers, Sequences, FiniteSets, TLC

\* Longest generated text, in characters.
MaxTextLen == 3
\* Most candidates in a "generations" array.
MaxGenerations == 2

(***************************************************************************)
(* Python strings                                                          *)
(***************************************************************************)
Chars == {" ", "a"}
Whitespace == {" "}

Texts == UNION {[1..k -> Chars] : k \in 0..MaxTextLen}

RECURSIVE LStrip(_)
LStrip(s) ==
    IF s # <<>> /\ Head(s) \in Whitespace THEN LStrip(Tail(s)) ELSE s

RECURSIVE RStrip(_)
RStrip(s) ==
    IF s # <<>> /\ s[Len(s)] \in Whitespace
    THEN RStrip(SubSeq(s, 1, Len(s) - 1))
    ELSE s

\* str.strip() with no argument
Strip(s) == RStrip(LStrip(s))

(***************************************************************************)
(* The fixed messages of get_cohere_response and handle_message            *)
(***************************************************************************)
MsgUnauthorized ==
    <<"**API Key Error**: Your Cohere API key appears to be invalid or expired. Please check your API key in the .env file.">>
MsgRateLimited ==
    <<"**Rate Limited**: Too many requests. Please wait a moment and try again.">>
MsgMalformed == <<"Error: Cohere response is missing expected data.">>
MsgTimeout ==
    <<"**Timeout Error**: Request took too long. Please try again.">>
MsgConnection ==
    <<"**Connection Error**: Could not connect to Cohere API. Check your internet connection.">>
MsgApiErrorPrefix == <<"**API Error**: ">>
MsgApiError(detail) == MsgApiErrorPrefix \o detail
MsgUnexpected ==
    <<"An unexpected error occurred while generating a response.">>
MsgApology ==
    <<"An error occurred while processing your message. Please try again.">>

(***************************************************************************)
(* Exceptions.  An exception is [cls, str]: its class and str(exception).  *)
(* Parents is the part of the class hierarchy of requests.exceptions and   *)
(* of the builtins that the except clauses of lines 78-89 and 134 test.    *)
(***************************************************************************)
Parents(cls) ==
    CASE cls = "ConnectTimeout"   -> {"ConnectionError", "Timeout"}
      [] cls = "ReadTimeout"      -> {"Timeout"}
      [] cls = "Timeout"          -> {"RequestException"}
      [] cls = "SSLError"         -> {"ConnectionError"}
      [] cls = "ConnectionError"  -> {"RequestException"}
      [] cls = "HTTPError"        -> {"RequestException"}
      [] cls = "TooManyRedirects" -> {"RequestException"}
      [] cls = "JSONDecodeError"  -> {"InvalidJSONError", "ValueError"}
      [] cls = "InvalidJSONError" -> {"RequestException"}
      [] cls = "RequestException" -> {"OSError"}
      [] cls = "OSError"          -> {"Exception"}
      [] cls = "ValueError"       -> {"Exception"}
      [] cls = "KeyError"         -> {"LookupError"}
      [] cls = "IndexError"       -> {"LookupError"}
      [] cls = "LookupError"      -> {"Exception"}
      [] cls = "TypeError"        -> {"Exception"}
      [] cls = "AttributeError"   -> {"Exception"}
      [] cls = "UnboundLocalError" -> {"NameError"}
      [] cls = "NameError"        -> {"Exception"}
      [] cls = "RuntimeError"     -> {"Exception"}
      [] cls = "NetworkError"     -> {"TelegramError"}
      [] cls = "BadRequest"       -> {"NetworkError"}
      [] cls = "TelegramError"    -> {"Exception"}
      [] cls = "Exception"        -> {"BaseException"}
      [] OTHER                    -> {}

RECURSIVE Ancestors(_)
Ancestors(cls) ==
    {cls} \cup UNION {Ancestors(p) : p \in Parents(cls)}

\* isinstance(exc, base), the test an "except base:" clause makes
IsInstance(exc, base) == base \in Ancestors(exc.cls)

Exc(cls, str) == [cls |-> cls, str |-> str]

\* What a call or a block of statements ends with.
Return(value) == [kind |-> "return", value |-> value]
Raise(exc) == [kind |-> "raise", exc |-> exc]

(***************************************************************************)
(* Python values decoded from a JSON body (response.json(), line 67):      *)
(* None, a number, a str, a list, a dict.                                  *)
(***************************************************************************)
PyNone == [t |-> "None"]
PyNum == [t |-> "num"]
PyStr(s) == [t |-> "str", s |-> s]
PyList(items) == [t |-> "list", items |-> items]
PyDict(d) == [t |-> "dict", d |-> d]

Ok(v) == [ok |-> TRUE, v |-> v]
Err(cls, str) == [ok |-> FALSE, exc |-> Exc(cls, str)]

\* key in v, for a str key
PyContains(key, v) ==
    CASE v.t = "dict" -> Ok(key \in DOMAIN v.d)
      [] v.t = "list" ->
            Ok(\E i \in 1..Len(v.items) : v.items[i] = PyStr(<<key>>))
      [] v.t = "str"  -> Ok(\E i \in 1..Len(v.s) : v.s[i] = key)
      [] OTHER        -> Err("TypeError", <<"argument is not iterable">>)

\* v[key], for a str key
PyGetKey(v, key) ==
    CASE v.t = "dict" ->
            IF key \in DOMAIN v.d THEN Ok(v.d[key])
            ELSE Err("KeyError", <<key>>)
      [] v.t = "list" ->
            Err("TypeError", <<"list indices must be integers or slices, not str">>)
      [] v.t = "str"  ->
            Err("TypeError", <<"string indices must be integers">>)
      [] OTHER        -> Err("TypeError", <<"object is not subscriptable">>)

\* v[0]
PyGetFirst(v) ==
    CASE v.t = "list" ->
            IF Len(v.items) > 0 THEN Ok(v.items[1])
            ELSE Err("IndexError", <<"list index out of range">>)
      [] v.t = "str"  ->
            IF Len(v.s) > 0 THEN Ok(PyStr(<<v.s[1]>>))
            ELSE Err("IndexError", <<"string index out of range">>)
      [] v.t = "dict" -> Err("KeyError", <<"0">>)
      [] OTHER        -> Err("TypeError", <<"object is not subscriptable">>)

\* len(v)
PyLen(v) ==
    CASE v.t = "list" -> Ok(Len(v.items))
      [] v.t = "str"  -> Ok(Len(v.s))
      [] v.t = "dict" -> Ok(Cardinality(DOMAIN v.d))
      [] OTHER        -> Err("TypeError", <<"object has no len()">>)

\* v.strip()
PyStrip(v) ==
    IF v.t = "str" THEN Ok(Strip(v.s))
    ELSE Err("AttributeError", <<"object has no attribute 'strip'">>)

(***************************************************************************)
(* What requests.post (line 53) can end with: an exception, or a response  *)
(* with a status code and a body.  A body is JSON text, decoded here to    *)
(* the Python value it stands for, or it is not JSON; json() then raises   *)
(* requests' JSONDecodeError (requests 2.27 and later) or a plain          *)
(* ValueError (earlier versions): the source pins no version.              *)
(***************************************************************************)
StatusCodes == {200, 201, 304, 400, 401, 404, 429, 500, 503}

\* One candidate of "generations"
Candidates ==
    {PyDict([text |-> PyStr(s)]) : s \in Texts}
        \cup {PyDict([text |-> PyNone]), PyDict([id |-> PyNum]),
              PyNone, PyStr(<<"a">>)}

\* The candidates after the first are drawn from three shapes.
LaterCandidates ==
    {PyDict([text |-> PyStr(<<"a", " ">>)]), PyDict([id |-> PyNum]), PyNone}

CandidateLists ==
    {<<>>} \cup
    UNION {{<<c>> \o rest : c \in Candidates, rest \in [1..k -> LaterCandidates]}
              : k \in 0..(MaxGenerations - 1)}

GenerationsValues ==
    {PyList(l) : l \in CandidateLists}
        \cup {PyNone, PyNum, PyStr(<<>>), PyStr(<<"a">>), PyDict(<<>>)}

JsonValues ==
    {PyDict([id |-> PyNum, generations |-> g]) : g \in GenerationsValues}
        \cup {PyDict([id |-> PyNum]), PyDict(<<>>),
              PyList(<<>>), PyList(<<PyStr(<<"generations">>)>>),
              PyStr(<<>>), PyStr(<<"generations">>), PyNum, PyNone}

Bodies ==
    {[json |-> TRUE, value |-> v, raises |-> "none"] : v \in JsonValues}
        \cup {[json |-> FALSE, value |-> PyNone, raises |-> c]
                 : c \in {"JSONDecodeError", "ValueError"}}

PostExceptions ==
    {Exc("ConnectTimeout", <<"connect timed out">>),
     Exc("ReadTimeout", <<"read timed out">>),
     Exc("ConnectionError", <<"connection refused">>),
     Exc("SSLError", <<"certificate verify failed">>),
     Exc("TooManyRedirects", <<"Exceeded 30 redirects.">>),
     Exc("RuntimeError", <<"unexpected">>)}

PostOutcomes ==
    {[raised |-> TRUE, exc |-> e, status_code |-> 0, body |-> [json |-> FALSE, value |-> PyNone, raises |-> "ValueError"]]
        : e \in PostExceptions}
    \cup
    {[raised |-> FALSE, exc |-> Exc("none", <<>>), status_code |-> s, body |-> b]
        : s \in StatusCodes, b \in Bodies}

(***************************************************************************)
(* get_cohere_response, lines 38-91                                        *)
(***************************************************************************)
\* The request of lines 39-49 and 53.
GenerationRequest(user_input) ==
    [url |-> "https://api.cohere.ai/v1/generate", model |-> "command",
     prompt |-> user_input]

\* A plausible slip: the call of raise_for_status is left out.
raise_for_status_skipped(response) == Ok(PyNone)

\* response.raise_for_status(), line 66: raises HTTPError for a status in
\* 400..599 and for no other.
raise_for_status(response) ==
    IF 400 <= response.status_code /\ response.status_code < 500
    THEN Err("HTTPError", <<ToString(response.status_code), " Client Error for url: https://api.cohere.ai/v1/generate">>)
    ELSE IF 500 <= response.status_code /\ response.status_code < 600
    THEN Err("HTTPError", <<ToString(response.status_code), " Server Error for url: https://api.cohere.ai/v1/generate">>)
    ELSE Ok(PyNone)

\* response.json(), line 67
response_json(response) ==
    IF response.body.json THEN Ok(response.body.value)
    ELSE Err(response.body.raises, <<"Expecting value: line 1 column 1 (char 0)">>)

\* A plausible slip: the last candidate is taken instead of the first.
generated_text_last(result) ==
    LET g == PyGetKey(result, "generations") IN
    IF ~g.ok THEN g ELSE
    LET last == IF g.v.t = "list" /\ Len(g.v.items) > 0
                THEN Ok(g.v.items[Len(g.v.items)]) ELSE PyGetFirst(g.v) IN
    IF ~last.ok THEN last ELSE
    LET text == PyGetKey(last.v, "text") IN
    IF ~text.ok THEN text ELSE
    PyStrip(text.v)

\* result["generations"][0]["text"].strip(), line 70
generated_text(result) ==
    LET g == PyGetKey(result, "generations") IN
    IF ~g.ok THEN g ELSE
    LET first == PyGetFirst(g.v) IN
    IF ~first.ok THEN first ELSE
    LET text == PyGetKey(first.v, "text") IN
    IF ~text.ok THEN text ELSE
    PyStrip(text.v)

\* A plausible slip: the test of the length is left out.
has_generations_no_len(result) == PyContains("generations", result)

\* "generations" in result and len(result["generations"]) > 0, line 69
has_generations(result) ==
    LET c == PyContains("generations", result) IN
    IF ~c.ok THEN c ELSE
    IF ~c.v THEN Ok(FALSE) ELSE
    LET g == PyGetKey(result, "generations") IN
    IF ~g.ok THEN g ELSE
    LET n == PyLen(g.v) IN
    IF ~n.ok THEN n ELSE Ok(n.v > 0)

\* The try block, lines 52-76, given what requests.post ended with.
try_block(user_input, post) ==
    IF post.raised THEN Raise(post.exc)
    ELSE IF post.status_code = 401 THEN Return(MsgUnauthorized)
    ELSE IF post.status_code = 429 THEN Return(MsgRateLimited)
    ELSE
    LET rfs == raise_for_status(post) IN
    IF ~rfs.ok THEN Raise(rfs.exc) ELSE
    LET result == response_json(post) IN
    IF ~result.ok THEN Raise(result.exc) ELSE
    LET cond == has_generations(result.v) IN
    IF ~cond.ok THEN Raise(cond.exc) ELSE
    IF cond.v
    THEN LET text == generated_text(result.v) IN
         IF ~text.ok THEN Raise(text.exc) ELSE Return(text.v)
    ELSE Return(MsgMalformed)

\* A plausible slip: the handlers without the final "except Exception".
except_clauses_no_catch_all(done) ==
    IF done.kind = "return" THEN done
    ELSE IF IsInstance(done.exc, "Timeout") THEN Return(MsgTimeout)
    ELSE IF IsInstance(done.exc, "ConnectionError") THEN Return(MsgConnection)
    ELSE IF IsInstance(done.exc, "RequestException")
    THEN Return(MsgApiError(done.exc.str))
    ELSE done

\* A plausible slip: ConnectionError is tested before Timeout.
except_clauses_connection_first(done) ==
    IF done.kind = "return" THEN done
    ELSE IF IsInstance(done.exc, "ConnectionError") THEN Return(MsgConnection)
    ELSE IF IsInstance(done.exc, "Timeout") THEN Return(MsgTimeout)
    ELSE IF IsInstance(done.exc, "RequestException")
    THEN Return(MsgApiError(done.exc.str))
    ELSE IF IsInstance(done.exc, "Exception") THEN Return(MsgUnexpected)
    ELSE done

\* The except clauses, lines 78-91, in their order, applied to what the try
\* block ended with.  An exception none of them matches propagates.
except_clauses(done) ==
    IF done.kind = "return" THEN done
    ELSE IF IsInstance(done.exc, "Timeout") THEN Return(MsgTimeout)
    ELSE IF IsInstance(done.exc, "ConnectionError") THEN Return(MsgConnection)
    ELSE IF IsInstance(done.exc, "RequestException")
    THEN Return(MsgApiError(done.exc.str))
    ELSE IF IsInstance(done.exc, "Exception") THEN Return(MsgUnexpected)
    ELSE done

get_cohere_response(user_input, post) ==
    except_clauses(try_block(user_input, post))

(***************************************************************************)
(* State                                                                   *)
(***************************************************************************)
VARIABLES
    g_prompt,     \* get_cohere_response exercised alone: its argument,
    g_post,       \*   what requests.post ended with in the latest call,
    g_result,     \*   what the latest call ended with,
    g_requests,   \*   the requests issued so far
    pc,           \* per conversation: where its handler stands
    update,       \* per conversation: the update being handled
    user_message, \* per conversation: local of handle_message (line 117)
    chat_id,      \* per conversation: local of handle_message (line 118), 0 = unbound
    response,     \* per conversation: local of handle_message (line 128)
    trace,        \* per conversation: what the handler of the update has sent out
    errlog,       \* conversations with an update that error_handler has printed
    exit_reason   \* "running", or why the process ended

g_vars == <<g_prompt, g_post, g_result, g_requests>>
relay_vars == <<pc, update, user_message, chat_id, response, trace, errlog, exit_reason>>
vars == <<g_prompt, g_post, g_result, g_requests,
          pc, update, user_message, chat_id, response, trace, errlog, exit_reason>>

\* Two conversations, the fewest that let the handlers of different
\* conversations interleave; each has at most one handler in flight.
Chats == {1, 2}
Prompts == {<<"hi">>, <<"hello">>}

\* The updates the handlers of lines 151-153 are called with.  filters.TEXT
\* & ~filters.COMMAND also passes an edited message and a channel post,
\* for which update.message is None ("text_no_message").
UpdateKinds == {"text", "text_no_message", "start", "help"}
TextKinds == {"text", "text_no_message"}

NoUpdate == [kind |-> "none", chat |-> 0, text |-> <<>>]
NoResult == [kind |-> "none", value |-> <<>>]
NoPost ==
    [raised |-> FALSE, exc |-> Exc("none", <<>>), status_code |-> 0,
     body |-> [json |-> FALSE, value |-> PyNone, raises |-> "none"]]

Event(op, chat, text, ok) == [op |-> op, chat |-> chat, text |-> text, ok |-> ok]

MsgWelcome == <<"Hello! I'm your Cohere AI bot.">>
MsgHelp == <<"How to use this bot:">>

\* The state once main (lines 144-162) has built the application, added the
\* three handlers and the error handler, and started polling.
RelayInit ==
    /\ pc = [c \in Chats |-> "idle"]
    /\ update = [c \in Chats |-> NoUpdate]
    /\ user_message = [c \in Chats |-> <<>>]
    /\ chat_id = [c \in Chats |-> 0]
    /\ response = [c \in Chats |-> <<>>]
    /\ trace = [c \in Chats |-> <<>>]
    /\ errlog = {}
    /\ exit_reason = "running"

GenIdle ==
    /\ g_post = NoPost
    /\ g_result = NoResult
    /\ g_requests = <<>>

Init ==
    /\ g_prompt = <<>>
    /\ GenIdle
    /\ RelayInit

(***************************************************************************)
(* The relay: handle_message, the command handlers, error_handler          *)
(***************************************************************************)
\* The application takes an update of conversation c from polling (line
\* 162) and calls the handler that matches it; locals start unbound.
Dispatch(c) ==
    /\ exit_reason = "running"
    /\ pc[c] \in {"idle", "done", "logged"}
    /\ \E kind \in UpdateKinds, text \in Prompts :
          /\ update' = [update EXCEPT ![c] =
                           [kind |-> kind, chat |-> c,
                            text |-> IF kind \in TextKinds THEN text ELSE <<"/", kind>>]]
          /\ pc' = [pc EXCEPT ![c] = IF kind \in TextKinds THEN "read" ELSE "command"]
    /\ user_message' = [user_message EXCEPT ![c] = <<>>]
    /\ chat_id' = [chat_id EXCEPT ![c] = 0]
    /\ response' = [response EXCEPT ![c] = <<>>]
    /\ trace' = [trace EXCEPT ![c] = <<>>]
    /\ UNCHANGED <<errlog, exit_reason, g_vars>>

\* start_command, lines 94-101: one reply_text, which may fail; nothing in
\* the handler catches the failure.
start_command(c) ==
    /\ exit_reason = "running"
    /\ pc[c] = "command"
    /\ update[c].kind = "start"
    /\ \E ok \in BOOLEAN :
          /\ trace' = [trace EXCEPT ![c] = Append(@, Event("send", update[c].chat, MsgWelcome, ok))]
          /\ pc' = [pc EXCEPT ![c] = IF ok THEN "done" ELSE "raised"]
    /\ UNCHANGED <<update, user_message, chat_id, response, errlog, exit_reason, g_vars>>

\* help_command, lines 104-112: the same with the help text.
help_command(c) ==
    /\ exit_reason = "running"
    /\ pc[c] = "command"
    /\ update[c].kind = "help"
    /\ \E ok \in BOOLEAN :
          /\ trace' = [trace EXCEPT ![c] = Append(@, Event("send", update[c].chat, MsgHelp, ok))]
          /\ pc' = [pc EXCEPT ![c] = IF ok THEN "done" ELSE "raised"]
    /\ UNCHANGED <<update, user_message, chat_id, response, errlog, exit_reason, g_vars>>

\* handle_message, lines 117-122.  update.message.text raises AttributeError when
\* update.message is None, before chat_id is bound.
handle_message_read(c) ==
    /\ exit_reason = "running"
    /\ pc[c] = "read"
    /\ IF update[c].kind = "text_no_message"
       THEN /\ pc' = [pc EXCEPT ![c] = "except"]
            /\ UNCHANGED <<user_message, chat_id>>
       ELSE /\ user_message' = [user_message EXCEPT ![c] = update[c].text]
            /\ chat_id' = [chat_id EXCEPT ![c] = update[c].chat]
            /\ pc' = [pc EXCEPT ![c] = "typing"]
    /\ UNCHANGED <<update, response, trace, errlog, exit_reason, g_vars>>

\* handle_message, line 125: await send_chat_action, which may fail.
handle_message_typing(c) ==
    /\ exit_reason = "running"
    /\ pc[c] = "typing"
    /\ \E ok \in BOOLEAN :
          /\ trace' = [trace EXCEPT ![c] = Append(@, Event("typing", chat_id[c], <<>>, ok))]
          /\ pc' = [pc EXCEPT ![c] = IF ok THEN "generate" ELSE "except"]
    /\ UNCHANGED <<update, user_message, chat_id, response, errlog, exit_reason, g_vars>>

\* A plausible slip: a timed-out request is issued a second time.
post_calls_retry_on_timeout(user_input, post) ==
    IF post.raised /\ IsInstance(post.exc, "Timeout")
    THEN <<GenerationRequest(user_input), GenerationRequest(user_input)>>
    ELSE <<GenerationRequest(user_input)>>

\* The requests one call of get_cohere_response issues: line 53, once, in
\* no loop and behind no cache.
post_calls(user_input, post) == <<GenerationRequest(user_input)>>

RequestEvents(reqs) ==
    [i \in 1..Len(reqs) |-> Event("request", 0, reqs[i].prompt, TRUE)]

\* For each prompt, what a call of get_cohere_response can end with and the
\* requests it issues, over everything requests.post can do.
CallOutcomes ==
    [p \in Prompts |->
        {[result |-> get_cohere_response(p, post), requests |-> post_calls(p, post)]
            : post \in PostOutcomes}]

\* handle_message, lines 128-129: the call of get_cohere_response, synchronous.  An
\* exception it raised would be caught at line 134.
handle_message_generate(c) ==
    /\ exit_reason = "running"
    /\ pc[c] = "generate"
    /\ \E call \in CallOutcomes[user_message[c]] :
          LET r == call.result IN
          /\ trace' = [trace EXCEPT ![c] = @ \o RequestEvents(call.requests)]
          /\ IF r.kind = "return"
             THEN /\ response' = [response EXCEPT ![c] = r.value]
                  /\ pc' = [pc EXCEPT ![c] = "send"]
             ELSE /\ response' = response
                  /\ pc' = [pc EXCEPT ![c] = "except"]
    /\ UNCHANGED <<update, user_message, chat_id, errlog, exit_reason, g_vars>>

\* A plausible slip: chat_id kept where every handler writes it, so that a
\* reply may go to the conversation of another handler in flight.
reply_chat_shared(c) ==
    CHOOSE d \in Chats : chat_id[d] # 0 /\ \A e \in Chats : chat_id[e] # 0 => d <= e

\* The conversation line 132 addresses: the handler's own local chat_id.
reply_chat(c) == chat_id[c]

\* handle_message, line 132: await send_message, which may fail; Telegram rejects an empty
\* text (BadRequest).
handle_message_reply(c) ==
    /\ exit_reason = "running"
    /\ pc[c] = "send"
    /\ \E ok \in BOOLEAN :
          /\ response[c] = <<>> => ~ok
          /\ trace' = [trace EXCEPT ![c] = Append(@, Event("send", reply_chat(c), response[c], ok))]
          /\ pc' = [pc EXCEPT ![c] = IF ok THEN "done" ELSE "except"]
    /\ UNCHANGED <<update, user_message, chat_id, response, errlog, exit_reason, g_vars>>

\* handle_message, lines 134-137: the except clause of handle_message.  Reading chat_id
\* while it is unbound raises UnboundLocalError; the send of the apology may
\* fail; either exception leaves the handler.
handle_message_except(c) ==
    /\ exit_reason = "running"
    /\ pc[c] = "except"
    /\ IF chat_id[c] = 0
       THEN /\ pc' = [pc EXCEPT ![c] = "raised"]
            /\ trace' = trace
       ELSE \E ok \in BOOLEAN :
            /\ trace' = [trace EXCEPT ![c] = Append(@, Event("send", chat_id[c], MsgApology, ok))]
            /\ pc' = [pc EXCEPT ![c] = IF ok THEN "done" ELSE "raised"]
    /\ UNCHANGED <<update, user_message, chat_id, response, errlog, exit_reason, g_vars>>

\* A plausible slip: the error handler raises the error again and the
\* process ends with it.
error_handler_reraises(c) ==
    /\ exit_reason = "running"
    /\ pc[c] = "raised"
    /\ errlog' = errlog \cup {c}
    /\ pc' = [pc EXCEPT ![c] = "logged"]
    /\ exit_reason' = "Fatal error"
    /\ UNCHANGED <<update, user_message, chat_id, response, trace, g_vars>>

\* Lines 140-141, registered at line 156: the application calls it with an
\* exception that left a handler; it prints and returns.
error_handler(c) ==
    /\ exit_reason = "running"
    /\ pc[c] = "raised"
    /\ errlog' = errlog \cup {c}
    /\ pc' = [pc EXCEPT ![c] = "logged"]
    /\ UNCHANGED <<update, user_message, chat_id, response, trace, exit_reason, g_vars>>

\* Lines 167-168: Ctrl+C ends polling and the process.
KeyboardInterrupt ==
    /\ exit_reason = "running"
    /\ exit_reason' = "Bot stopped by user"
    /\ UNCHANGED <<pc, update, user_message, chat_id, response, trace, errlog, g_vars>>

Next ==
    \/ \E c \in Chats : Dispatch(c)
    \/ \E c \in Chats : start_command(c)
    \/ \E c \in Chats : help_command(c)
    \/ \E c \in Chats : handle_message_read(c)
    \/ \E c \in Chats : handle_message_typing(c)
    \/ \E c \in Chats : handle_message_generate(c)
    \/ \E c \in Chats : handle_message_reply(c)
    \/ \E c \in Chats : handle_message_except(c)
    \/ \E c \in Chats : error_handler(c)
    \/ KeyboardInterrupt

Spec == Init /\ [][Next]_vars

(***************************************************************************)
(* get_cohere_response exercised alone                                     *)
(***************************************************************************)
GenPrompts == Prompts \cup {<<>>, <<" ">>}

\* The inputs of one call: the prompt, and what requests.post will do.
GenInit ==
    /\ g_prompt \in GenPrompts
    /\ g_post \in PostOutcomes
    /\ g_result = NoResult
    /\ g_requests = <<>>
    /\ RelayInit

\* The call get_cohere_response(g_prompt).
Call ==
    /\ g_result = NoResult
    /\ g_result' = get_cohere_response(g_prompt, g_post)
    /\ g_requests' = g_requests \o post_calls(g_prompt, g_post)
    /\ UNCHANGED <<g_prompt, g_post, relay_vars>>

GenNext == Call

GenSpec == GenInit /\ [][GenNext]_vars

(***************************************************************************)
(* Properties of get_cohere_response, checked under GenSpec                *)
(***************************************************************************)
Called == g_result # NoResult
Responded == Called /\ ~g_post.raised
Is2xx(status) == 200 <= status /\ status < 300
Returned(value) == g_result = Return(value)
IsApiErrorMessage(value) ==
    Len(value) > Len(MsgApiErrorPrefix)
        /\ SubSeq(value, 1, Len(MsgApiErrorPrefix)) = MsgApiErrorPrefix

\* The body is a JSON object whose "generations" is a non-empty array whose
\* first element is an object with a "text" string.
HasExpectedShape(body) ==
    /\ body.json
    /\ body.value.t = "dict"
    /\ "generations" \in DOMAIN body.value.d
    /\ body.value.d.generations.t = "list"
    /\ Len(body.value.d.generations.items) > 0
    /\ body.value.d.generations.items[1].t = "dict"
    /\ "text" \in DOMAIN body.value.d.generations.items[1].d
    /\ body.value.d.generations.items[1].d.text.t = "str"

FirstText(body) == body.value.d.generations.items[1].d.text.s

\* r is s without its leading and its trailing whitespace, said without Strip.
IsTrimOf(r, s) ==
    \E i \in 1..(Len(s) + 1), j \in 0..Len(s) :
        /\ r = SubSeq(s, i, j)
        /\ \A k \in 1..Len(s) : (k < i \/ k > j) => s[k] \in Whitespace
        /\ r # <<>> => (r[1] \notin Whitespace /\ r[Len(r)] \notin Whitespace)

\* C1: whatever requests.post does, a call of get_cohere_response ends by
\* returning a str; it never raises.
C1_NeverRaises ==
    Called => g_result.kind = "return" /\ g_result.value \in Seq(STRING)

\* C1 witness: a 200 body whose first candidate has no "text" makes line 70
\* raise KeyError, and the call has returned the unexpected-error message.
C1_Witness ==
    /\ Responded
    /\ g_post.status_code = 200
    /\ g_post.body = [json |-> TRUE, raises |-> "none",
                      value |-> PyDict([id |-> PyNum,
                                        generations |-> PyList(<<PyDict([id |-> PyNum])>>)])]
    /\ Returned(MsgUnexpected)

\* C2 (as claimed): for a non-empty prompt, whatever requests.post does, the
\* returned str is non-empty.
C2_NonEmptyResult ==
    (Called /\ g_prompt # <<>>) =>
        g_result.kind = "return" /\ g_result.value # <<>>

\* C4 (as claimed): a response whose status is outside 2xx and is neither
\* 401 nor 429 makes the call return the API Error message.
C4_NonSuccessIsApiError ==
    (Responded /\ ~Is2xx(g_post.status_code) /\ g_post.status_code \notin {401, 429}) =>
        g_result.kind = "return" /\ IsApiErrorMessage(g_result.value)

\* C4 (amended): a response whose status is in 400..599 and is neither 401
\* nor 429 makes the call return the API Error message, which embeds the
\* status; never the generated text nor the malformed-response message.
C4_ErrorStatusIsApiError ==
    (Responded /\ 400 <= g_post.status_code /\ g_post.status_code < 600
        /\ g_post.status_code \notin {401, 429}) =>
        /\ g_result.kind = "return"
        /\ IsApiErrorMessage(g_result.value)
        /\ g_result.value[Len(MsgApiErrorPrefix) + 1] = ToString(g_post.status_code)
        /\ g_result.value # MsgMalformed

\* C4 witness: a 404 whose body holds a well-formed generation has been
\* answered with the API Error message.
C4_Witness ==
    /\ Responded
    /\ g_post.status_code = 404
    /\ HasExpectedShape(g_post.body)
    /\ FirstText(g_post.body) = <<"a">>
    /\ IsApiErrorMessage(g_result.value)

\* The shapes C5 lists: not JSON, not a JSON object, no "generations", an
\* empty "generations" array, a first element without "text".
LacksExpectedShape(body) ==
    \/ ~body.json
    \/ body.value.t # "dict"
    \/ "generations" \notin DOMAIN body.value.d
    \/ body.value.d.generations = PyList(<<>>)
    \/ /\ body.value.d.generations.t = "list"
       /\ Len(body.value.d.generations.items) > 0
       /\ body.value.d.generations.items[1].t = "dict"
       /\ "text" \notin DOMAIN body.value.d.generations.items[1].d

\* C5 (as claimed): a 2xx response whose body lacks the expected shape makes
\* the call return the malformed-response message.
C5_MalformedForEveryShape ==
    (Responded /\ Is2xx(g_post.status_code) /\ LacksExpectedShape(g_post.body)) =>
        Returned(MsgMalformed)

\* The body is a JSON object with no "generations" or with an empty
\* "generations" array.
NoGenerations(body) ==
    /\ body.json
    /\ body.value.t = "dict"
    /\ \/ "generations" \notin DOMAIN body.value.d
       \/ body.value.d.generations = PyList(<<>>)

\* C5 (amended): a 2xx response whose body is a JSON object with no
\* "generations" field or with an empty "generations" array makes the call
\* return the malformed-response message.  A first element without "text"
\* and a body that is a JSON number or null make it return the
\* unexpected-error message; a body that is not JSON makes it return the
\* API Error message or the unexpected-error message, as json() raises.
C5_MalformedForMissingOrEmpty ==
    (Responded /\ Is2xx(g_post.status_code)) =>
        /\ NoGenerations(g_post.body) => Returned(MsgMalformed)
        /\ (g_post.body.json /\ g_post.body.value.t \in {"num", "None"}) =>
              Returned(MsgUnexpected)
        /\ (g_post.body.json /\ ~NoGenerations(g_post.body)
                /\ LacksExpectedShape(g_post.body) /\ g_post.body.value.t = "dict") =>
              Returned(MsgUnexpected)
        /\ ~g_post.body.json =>
              IF g_post.body.raises = "JSONDecodeError"
              THEN g_result.kind = "return" /\ IsApiErrorMessage(g_result.value)
              ELSE Returned(MsgUnexpected)

\* C5 witness: a 200 body {"generations": []} has been answered with the
\* malformed-response message.
C5_Witness ==
    /\ Responded
    /\ g_post.status_code = 200
    /\ g_post.body.json
    /\ g_post.body.value = PyDict([id |-> PyNum, generations |-> PyList(<<>>)])
    /\ Returned(MsgMalformed)

\* C9: a 2xx response of the expected shape makes the call return the first
\* candidate's text without its leading and trailing whitespace, whatever
\* the later candidates are.
C9_FirstTextTrimmed ==
    (Responded /\ Is2xx(g_post.status_code) /\ HasExpectedShape(g_post.body)) =>
        g_result.kind = "return" /\ IsTrimOf(g_result.value, FirstText(g_post.body))

\* C9 witness: two candidates, the first " a " and the second another text;
\* the call has returned "a".
C9_Witness ==
    /\ Responded
    /\ g_post.status_code = 200
    /\ HasExpectedShape(g_post.body)
    /\ FirstText(g_post.body) = <<" ", "a", " ">>
    /\ Len(g_post.body.value.d.generations.items) = 2
    /\ g_post.body.value.d.generations.items[2] = PyDict([text |-> PyStr(<<"a", " ">>)])
    /\ Returned(<<"a">>)

\* C10: 401 and 429 give their fixed messages whatever the body; a timeout
\* gives the timeout message; a connection failure gives the
\* connection-error message.
C10_FixedMessages ==
    Called =>
        /\ (~g_post.raised /\ g_post.status_code = 401) => Returned(MsgUnauthorized)
        /\ (~g_post.raised /\ g_post.status_code = 429) => Returned(MsgRateLimited)
        /\ (g_post.raised /\ g_post.exc.cls \in {"ConnectTimeout", "ReadTimeout"}) =>
              Returned(MsgTimeout)
        /\ (g_post.raised /\ g_post.exc.cls \in {"ConnectionError", "SSLError"}) =>
              Returned(MsgConnection)

\* C10 witness: requests.post raised ConnectTimeout, which is a Timeout and
\* a ConnectionError, and the call has returned the timeout message.
C10_Witness ==
    /\ Called
    /\ g_post.raised
    /\ g_post.exc.cls = "ConnectTimeout"
    /\ Returned(MsgTimeout)

(***************************************************************************)
(* Properties of the relay, checked under Spec                             *)
(***************************************************************************)
\* The handler of the update of conversation c has ended: it returned, or
\* an exception left it.
Finished(c) == pc[c] \in {"done", "raised", "logged"}
IsTextUpdate(c) == update[c].kind \in TextKinds

Requests(c) == SelectSeq(trace[c], LAMBDA e : e.op = "request")
TypingSent(c) == \E i \in 1..Len(trace[c]) : trace[c][i].op = "typing" /\ trace[c][i].ok
ApologyAttempted(c) ==
    \E i \in 1..Len(trace[c]) :
        trace[c][i].op = "send" /\ trace[c][i].text = MsgApology /\ trace[c][i].chat = c
\* The handling of the update of c did not fail: the handler returned and
\* everything it sent went out, the apology not among it.
Handled(c) ==
    /\ pc[c] = "done"
    /\ \A i \in 1..Len(trace[c]) : trace[c][i].ok /\ trace[c][i].text # MsgApology

\* C3 (as claimed): the handling of a plain-text message issues exactly one
\* generation request, never zero, whatever step fails; read when the
\* handler has returned.
C3_ExactlyOneRequest ==
    \A c \in Chats : (IsTextUpdate(c) /\ pc[c] = "done") => Len(Requests(c)) = 1

\* C3 (amended): the handling of a plain-text message issues at most one
\* generation request, for the message's own text, and exactly one once the
\* fields were read and the typing indicator was sent; no failure brings a
\* second request, and a prompt seen before is requested again.
C3_AtMostOneRequest ==
    \A c \in Chats : IsTextUpdate(c) =>
        /\ Len(Requests(c)) <= 1
        /\ \A i \in 1..Len(Requests(c)) : Requests(c)[i].text = update[c].text
        /\ Finished(c) => (Len(Requests(c)) = 1 <=> TypingSent(c))

\* C3 witness: both conversations sent the same text; the request of the
\* first timed out, and each handling has issued its one request.
C3_Witness ==
    /\ update[1].kind = "text" /\ update[2].kind = "text"
    /\ update[1].text = update[2].text
    /\ Finished(1) /\ Finished(2)
    /\ Len(Requests(1)) = 1 /\ Len(Requests(2)) = 1
    /\ \E i \in 1..Len(trace[1]) : trace[1][i].op = "send" /\ trace[1][i].text = MsgTimeout

\* C6 (as claimed): when the handling of a plain-text message fails at any
\* step, the apology is then sent, or its sending attempted, to the
\* conversation the message came from.
C6_ApologyOnFailure ==
    \A c \in Chats :
        (IsTextUpdate(c) /\ Finished(c) /\ ~Handled(c)) => ApologyAttempted(c)

\* C7: when the handling of a plain-text message does not fail, what it sent
\* is the typing indicator to the message's conversation, then the
\* generation request for the message's text, then the reply to the same
\* conversation with the str the call returned, whatever the handler of the
\* other conversation does meanwhile.
C7_TypingRequestReply ==
    \A c \in Chats : (IsTextUpdate(c) /\ Handled(c)) =>
        trace[c] = <<Event("typing", c, <<>>, TRUE),
                     Event("request", 0, update[c].text, TRUE),
                     Event("send", c, response[c], TRUE)>>

\* C7 witness: conversation 2 has been served while the handler of
\* conversation 1, dispatched with another text, holds another response and
\* has not sent it yet.
C7_Witness ==
    /\ IsTextUpdate(2) /\ Handled(2)
    /\ pc[1] = "send"
    /\ update[1].text # update[2].text
    /\ response[1] # response[2]

\* C8: an exception that leaves a handler is printed by error_handler and
\* nothing else comes of it: the process ends only by Ctrl+C, and while it
\* runs the next update of that conversation is dispatched.
C8_LoggedAndAlive ==
    /\ exit_reason \in {"running", "Bot stopped by user"}
    /\ \A c \in Chats : pc[c] = "logged" =>
          /\ c \in errlog
          /\ exit_reason = "running" => ENABLED Dispatch(c)

\* C8 witness: the apology of conversation 1 could not be sent and the
\* exception was printed; conversation 2, which had an exception printed
\* before, has had a later message served.
C8_Witness ==
    /\ pc[1] = "logged"
    /\ trace[1] # <<>>
    /\ trace[1][Len(trace[1])] = Event("send", 1, MsgApology, FALSE)
    /\ 2 \in errlog
    /\ IsTextUpdate(2) /\ Handled(2)
    /\ exit_reason = "running"
====
